---------------------------- MODULE Spec2Model ----------------------------
(***************************************************************************)
(* Model of pieces of the SPIRE agent/server code:                         *)
(*                                                                         *)
(*   - the buffered SVID-update pipe (package pipe): BufferedPipe, its     *)
(*     forwarding goroutine, pipeIn.Push, pipeIn.Close and the consumer    *)
(*     of pipeOut.GetUpdate();                                             *)
(*   - the rotator's observable state property and the KeysAndBundle       *)
(*     accessor built in newRotator (package svid);                        *)
(*   - pipeIn.IsStorable, the predicate over a workload's selectors;       *)
(*   - the server's bundle service (package bundle): GetBundle,            *)
(*     GetFederatedBundle, ListFederatedBundles,                           *)
(*     BatchDeleteFederatedBundle, the unimplemented methods and           *)
(*     applyMask, over the bundle repository (datastore), and a client     *)
(*     that calls the service in sequence.                                 *)
(*                                                                         *)
(* Go channels are modelled by their semantics: an unbuffered send is a    *)
(* rendezvous with a receiver, a buffered send needs free room, a receive  *)
(* from a closed channel yields the buffered items first, a send on a      *)
(* closed channel and a second close panic.  sync.RWMutex is modelled with *)
(* writer preference (a pending Lock blocks new RLocks), as in Go.         *)
(***************************************************************************)
EXTENDS Integers, Sequences, FiniteSets, TLC

\* ------------------------------------------------------------------ bounds
\* Largest bufferSize handed to BufferedPipe (every size 0..MaxBufferSize).
MaxBufferSize == 2
\* Number of Push calls over the pipe's life, each with nil or a fresh update.
MaxPushes == 3

\* The goroutines calling Push and Close.
Pushers == {"p1", "p2"}
Closers == {"c1", "c2"}

\* A nil *SVIDUpdate; the non-nil events are numbered 1, 2, ... in push order.
Nil == 0
None == "none"

VARIABLES
    \* --- BufferedPipe
    bufferSize,   \* the capacity of outCh
    producers,    \* the goroutines that call Push in this run
    inNil,        \* pipeIn.in == nil
    inCloses,     \* number of close(p.in) executed (closed iff > 0)
    doneCloses,   \* number of close(p.done) executed
    panicked,     \* a goroutine panicked (send on closed channel, double close)
    readers,      \* pushers holding p.mu in shared mode
    writer,       \* closer holding p.mu in exclusive mode, or None
    outCh,        \* the items buffered in outCh, oldest first
    outClosed,    \* close(outCh) has run
    wg,           \* the WaitGroup counter
    wpc,          \* the forwarding goroutine's position
    held,         \* svidUpdate, the loop variable of the forwarding goroutine
    ppc,          \* each pusher's position in Push
    pev,          \* each pusher's event argument
    cpc,          \* each closer's position in Close
    rpc,          \* the consumer's position: "idle", "recv" (blocked in receive) or "end"
    \* --- history of the run (not read by the program)
    nextEv,       \* the next non-nil event to be pushed
    pushes,       \* Push calls made so far
    accepted,     \* non-nil events the forwarding goroutine received, in order
    evicted,      \* events discarded by the overflow branch
    delivered,    \* events the consumer received, in order
    lateEv,       \* non-nil events whose Push was called after a Close returned
    \* --- the rotator's state property, the bundle stream and KeysAndBundle
    state,        \* the value held by the observer property "state"
    bundles,      \* the value held by c.BundleStream
    published,    \* every State value published so far (history)
    updates,      \* number of Update calls made so far (history)
    upc,          \* the rotation writer's position
    ulast,        \* the argument of the writer's last Update
    ugot,         \* what the writer's Value() after that Update returned
    kpc,          \* each KeysAndBundle caller's position
    ks,           \* its local s
    kb,           \* its local bundles
    kres,         \* what its last call returned, or NoResult
    \* --- the bundle service and its repository
    ds,           \* the ids of the bundles the repository holds, in its order
    req,          \* the request of the current or last service call
    resp,         \* its response so far
    svc,          \* the handler's position, and the history of the call
    \* --- applyMask on its own
    maskB,        \* the bundle handed to applyMask
    maskM,        \* the mask handed to applyMask
    maskOut,      \* what applyMask returned, or NotApplied
    \* --- pipeIn.IsStorable on its own
    selectors,    \* the selectors handed to IsStorable
    storable,     \* what IsStorable returned, or NotAsked
    \* --- a client of the bundle service that makes a sequence of calls
    client        \* what it is doing, and what its calls returned so far

pipeState == <<inNil, inCloses, doneCloses, panicked, outCh, outClosed, wg, wpc, held>>
pipeVars == <<bufferSize, producers, inNil, inCloses, doneCloses, panicked, readers,
              writer, outCh, outClosed, wg, wpc, held, ppc, pev, cpc, rpc,
              nextEv, pushes, accepted, evicted, delivered, lateEv>>

propVars == <<state, bundles, published, updates, upc, ulast, ugot, kpc, ks, kb, kres>>

svcVars == <<ds, req, resp, svc>>

maskVars == <<maskB, maskM, maskOut>>

storableVars == <<selectors, storable>>

clientVars == <<client>>

vars == <<pipeVars, propVars, svcVars, maskVars, storableVars, clientVars>>

\* What no step of the pipe changes.
pipeFrame == <<propVars, svcVars, maskVars, storableVars, clientVars, bufferSize,
              producers>>

\* What no step of the state property and its accessor changes.
propFrame == <<pipeVars, svcVars, maskVars, storableVars, clientVars>>

Range(s) == {s[i] : i \in 1..Len(s)}

\* ------------------------------------------------------- BufferedPipe: Init
\* The state after BufferedPipe(bufferSize) returned: both channels open and
\* empty, wg.Add(1) done, the goroutine about to range over inCh.
PipeStart ==
    /\ inNil = FALSE
    /\ inCloses = 0
    /\ doneCloses = 0
    /\ panicked = FALSE
    /\ readers = {}
    /\ writer = None
    /\ outCh = <<>>
    /\ outClosed = FALSE
    /\ wg = 1
    /\ wpc = "recv"
    /\ held = Nil
    /\ ppc = [p \in Pushers |-> "idle"]
    /\ pev = [p \in Pushers |-> Nil]
    /\ cpc = [c \in Closers |-> "idle"]
    /\ rpc = "idle"
    /\ nextEv = 1
    /\ pushes = 0
    /\ accepted = <<>>
    /\ evicted = {}
    /\ delivered = <<>>
    /\ lateEv = {}

PipeInit ==
    /\ bufferSize \in 0..MaxBufferSize
    /\ producers \in {{"p1"}, Pushers}
    /\ PipeStart

\* The pipe left alone, for the specifications of the other components.
PipeIdle ==
    /\ bufferSize = 0
    /\ producers = {}
    /\ PipeStart

CloseReturned == \E c \in Closers : cpc[c] = "returned"

histUnchanged == UNCHANGED <<nextEv, pushes, accepted, evicted, delivered, lateEv>>

\* ------------------------------------------------------------- pipeIn.Push
\* A producer calls Push(event): event is nil or the next fresh update.
PushCall(p) ==
    /\ p \in producers
    /\ ppc[p] = "idle"
    /\ pushes < MaxPushes
    /\ pushes' = pushes + 1
    /\ \E isNil \in BOOLEAN :
         IF isNil
         THEN /\ pev' = [pev EXCEPT ![p] = Nil]
              /\ UNCHANGED <<nextEv, lateEv>>
         ELSE /\ nextEv' = nextEv + 1
              /\ pev' = [pev EXCEPT ![p] = nextEv]
              /\ lateEv' = IF CloseReturned THEN lateEv \cup {nextEv} ELSE lateEv
    /\ ppc' = [ppc EXCEPT ![p] = "rlock"]
    /\ UNCHANGED <<pipeFrame, inNil, inCloses, doneCloses, panicked, readers,
                   writer, outCh, outClosed, wg, wpc, held, cpc, rpc,
                   accepted, evicted, delivered>>

\* p.mu.RLock(): granted when no writer holds the lock and none is waiting.
PushRLock(p) ==
    /\ ppc[p] = "rlock"
    /\ writer = None
    /\ \A c \in Closers : cpc[c] # "lock"
    /\ readers' = readers \cup {p}
    /\ ppc' = [ppc EXCEPT ![p] = "select"]
    /\ UNCHANGED <<pipeFrame, inNil, inCloses, doneCloses, panicked,
                   writer, outCh, outClosed, wg, wpc, held, pev, cpc, rpc>>
    /\ histUnchanged

\* case p.in <- event: the rendezvous on the unbuffered intake with the
\* forwarding goroutine's "range inCh"; a send on a nil channel never proceeds.
\* Push then runs its deferred RUnlock and returns.
PushSend(p) ==
    /\ ppc[p] = "select"
    /\ ~inNil
    /\ inCloses = 0
    /\ wpc = "recv"
    /\ held' = pev[p]
    /\ wpc' = "got"
    /\ accepted' = IF pev[p] # Nil THEN Append(accepted, pev[p]) ELSE accepted
    /\ readers' = readers \ {p}
    /\ ppc' = [ppc EXCEPT ![p] = "idle"]
    /\ UNCHANGED <<pipeFrame, inNil, inCloses, doneCloses, panicked,
                   writer, outCh, outClosed, wg, pev, cpc, rpc,
                   nextEv, pushes, evicted, delivered, lateEv>>

\* case <-p.done: ready once done is closed.  A send case on a non-nil closed
\* channel is ready too, and panics when the select picks it.  Push then runs
\* its deferred RUnlock and returns.
PushDone(p) ==
    /\ ppc[p] = "select"
    /\ doneCloses > 0
    /\ panicked' \in IF ~inNil /\ inCloses > 0 THEN {panicked, TRUE} ELSE {panicked}
    /\ readers' = readers \ {p}
    /\ ppc' = [ppc EXCEPT ![p] = "idle"]
    /\ UNCHANGED <<pipeFrame, inNil, inCloses, doneCloses,
                   writer, outCh, outClosed, wg, wpc, held, pev, cpc, rpc>>
    /\ histUnchanged

\* ------------------------------------------------------------ pipeIn.Close
\* A goroutine calls Close; it then waits in p.mu.Lock().
CloseCall(c) ==
    /\ cpc[c] = "idle"
    /\ cpc' = [cpc EXCEPT ![c] = "lock"]
    /\ UNCHANGED <<pipeFrame, inNil, inCloses, doneCloses, panicked, readers,
                   writer, outCh, outClosed, wg, wpc, held, ppc, pev, rpc>>
    /\ histUnchanged

\* p.mu.Lock(): granted when no reader and no writer holds the lock.
CloseLock(c) ==
    /\ cpc[c] = "lock"
    /\ writer = None
    /\ readers = {}
    /\ writer' = c
    /\ cpc' = [cpc EXCEPT ![c] = "locked"]
    /\ UNCHANGED <<pipeFrame, inNil, inCloses, doneCloses, panicked, readers,
                   outCh, outClosed, wg, wpc, held, ppc, pev, rpc>>
    /\ histUnchanged

InNotNilAlways == TRUE

\* if p.in != nil
InNotNil == ~inNil

\* The teardown without "p.in = nil".
CloseTeardownKeepsIn(c) ==
    /\ cpc[c] = "locked"
    /\ InNotNil
    /\ IF inCloses > 0
       THEN /\ panicked' = TRUE
            /\ writer' = None
            /\ cpc' = [cpc EXCEPT ![c] = "returned"]
            /\ UNCHANGED <<inCloses, doneCloses, inNil>>
       ELSE /\ inCloses' = inCloses + 1
            /\ doneCloses' = doneCloses + 1
            /\ inNil' = inNil
            /\ cpc' = [cpc EXCEPT ![c] = "wait"]
            /\ UNCHANGED <<panicked, writer>>
    /\ UNCHANGED <<pipeFrame, readers, outCh, outClosed, wg, wpc,
                   held, ppc, pev, rpc, nextEv, pushes, accepted, evicted, delivered,
                   lateEv>>

\* close(p.in); close(p.done); p.in = nil.  The three run under the exclusive
\* lock, so no Push observes a state between them.  Closing a closed channel
\* panics: the rest of the branch is skipped, the deferred Unlock runs and the
\* panic leaves Close.
CloseTeardown(c) ==
    /\ cpc[c] = "locked"
    /\ InNotNil
    /\ IF inCloses > 0
       THEN /\ panicked' = TRUE
            /\ writer' = None
            /\ cpc' = [cpc EXCEPT ![c] = "returned"]
            /\ UNCHANGED <<inCloses, doneCloses, inNil>>
       ELSE /\ inCloses' = inCloses + 1
            /\ doneCloses' = doneCloses + 1
            /\ inNil' = TRUE
            /\ cpc' = [cpc EXCEPT ![c] = "wait"]
            /\ UNCHANGED <<panicked, writer>>
    /\ UNCHANGED <<pipeFrame, readers, outCh, outClosed, wg, wpc,
                   held, ppc, pev, rpc, nextEv, pushes, accepted, evicted, delivered,
                   lateEv>>

\* p.in == nil: a later Close skips the branch, unlocks and returns.
CloseNoop(c) ==
    /\ cpc[c] = "locked"
    /\ ~InNotNil
    /\ writer' = None
    /\ cpc' = [cpc EXCEPT ![c] = "returned"]
    /\ UNCHANGED <<pipeFrame, inNil, inCloses, doneCloses, panicked, readers,
                   outCh, outClosed, wg, wpc, held, ppc, pev, rpc>>
    /\ histUnchanged

\* Close that does not wait for the forwarding goroutine.
CloseNoWait(c) ==
    /\ cpc[c] = "wait"
    /\ writer' = None
    /\ cpc' = [cpc EXCEPT ![c] = "returned"]
    /\ UNCHANGED <<pipeFrame, inNil, inCloses, doneCloses, panicked, readers,
                   outCh, outClosed, wg, wpc, held, ppc, pev, rpc>>
    /\ histUnchanged

\* p.wg.Wait() returns once the counter is zero; Close then runs its deferred
\* Unlock and returns.
CloseWait(c) ==
    /\ cpc[c] = "wait"
    /\ wg = 0
    /\ writer' = None
    /\ cpc' = [cpc EXCEPT ![c] = "returned"]
    /\ UNCHANGED <<pipeFrame, inNil, inCloses, doneCloses, panicked, readers,
                   outCh, outClosed, wg, wpc, held, ppc, pev, rpc>>
    /\ histUnchanged

\* ------------------------------------------- outCh: send, as Go performs it
\* A send on outCh can proceed: a receiver is blocked on it, or it has room.
CanSendOut == rpc = "recv" \/ Len(outCh) < bufferSize

\* A send that puts the item in front of the items buffered.
SendOutInFront(x) ==
    IF rpc = "recv"
    THEN /\ delivered' = Append(delivered, x)
         /\ rpc' = "idle"
         /\ UNCHANGED outCh
    ELSE /\ outCh' = <<x>> \o outCh
         /\ UNCHANGED <<delivered, rpc>>

\* outCh <- x: handed to the blocked consumer directly, else buffered.
SendOut(x) ==
    IF rpc = "recv"
    THEN /\ delivered' = Append(delivered, x)
         /\ rpc' = "idle"
         /\ UNCHANGED outCh
    ELSE /\ outCh' = Append(outCh, x)
         /\ UNCHANGED <<delivered, rpc>>

\* ------------------------------------------ BufferedPipe: forwarding goroutine
\* "range inCh" on the closed intake: the loop ends.
WorkerRangeEnd ==
    /\ wpc = "recv"
    /\ inCloses > 0
    /\ wpc' = "closeOut"
    /\ UNCHANGED <<pipeFrame, inNil, inCloses, doneCloses, panicked, readers,
                   writer, outCh, outClosed, wg, held, ppc, pev, cpc, rpc>>
    /\ histUnchanged

SkipsNothing(e) == FALSE

\* if svidUpdate == nil { continue }
SkipsEvent(e) == e = Nil

WorkerSkipNil ==
    /\ wpc = "got"
    /\ SkipsEvent(held)
    /\ wpc' = "recv"
    /\ UNCHANGED <<pipeFrame, inNil, inCloses, doneCloses, panicked, readers,
                   writer, outCh, outClosed, wg, held, ppc, pev, cpc, rpc>>
    /\ histUnchanged

\* select { case outCh <- svidUpdate: ... }: taken when the send can proceed.
WorkerSelectSend ==
    /\ wpc = "got"
    /\ ~SkipsEvent(held)
    /\ CanSendOut
    /\ SendOut(held)
    /\ wpc' = "recv"
    /\ UNCHANGED <<pipeFrame, inNil, inCloses, doneCloses, panicked, readers,
                   writer, outClosed, wg, held, ppc, pev, cpc,
                   nextEv, pushes, accepted, evicted, lateEv>>

\* An overflow branch that drops the new item instead of the oldest one.
WorkerSelectDefaultDropsNew ==
    /\ wpc = "got"
    /\ ~SkipsEvent(held)
    /\ ~CanSendOut
    /\ wpc' = "recv"
    /\ UNCHANGED <<pipeFrame, inNil, inCloses, doneCloses, panicked, readers,
                   writer, outCh, outClosed, wg, held, ppc, pev, cpc, rpc>>
    /\ histUnchanged

\* select { ... default: }: taken when the send cannot proceed at that moment.
WorkerSelectDefault ==
    /\ wpc = "got"
    /\ ~SkipsEvent(held)
    /\ ~CanSendOut
    /\ wpc' = "evict"
    /\ UNCHANGED <<pipeFrame, inNil, inCloses, doneCloses, panicked, readers,
                   writer, outCh, outClosed, wg, held, ppc, pev, cpc, rpc>>
    /\ histUnchanged

\* <-outCh in the default branch: a blocking receive of the oldest item.
WorkerEvict ==
    /\ wpc = "evict"
    /\ outCh # <<>>
    /\ evicted' = evicted \cup {Head(outCh)}
    /\ outCh' = Tail(outCh)
    /\ wpc' = "resend"
    /\ UNCHANGED <<pipeFrame, inNil, inCloses, doneCloses, panicked, readers,
                   writer, outClosed, wg, held, ppc, pev, cpc, rpc,
                   nextEv, pushes, accepted, delivered, lateEv>>

\* outCh <- svidUpdate in the default branch: a blocking send.
WorkerResend ==
    /\ wpc = "resend"
    /\ CanSendOut
    /\ SendOut(held)
    /\ wpc' = "recv"
    /\ UNCHANGED <<pipeFrame, inNil, inCloses, doneCloses, panicked, readers,
                   writer, outClosed, wg, held, ppc, pev, cpc,
                   nextEv, pushes, accepted, evicted, lateEv>>

\* defer close(outCh)
WorkerCloseOut ==
    /\ wpc = "closeOut"
    /\ outClosed' = TRUE
    /\ wpc' = "wgDone"
    /\ UNCHANGED <<pipeFrame, inNil, inCloses, doneCloses, panicked, readers,
                   writer, outCh, wg, held, ppc, pev, cpc, rpc>>
    /\ histUnchanged

\* defer wg.Done()
WorkerWgDone ==
    /\ wpc = "wgDone"
    /\ wg' = wg - 1
    /\ wpc' = "exited"
    /\ UNCHANGED <<pipeFrame, inNil, inCloses, doneCloses, panicked, readers,
                   writer, outCh, outClosed, held, ppc, pev, cpc, rpc>>
    /\ histUnchanged

\* ------------------------------------------------------ pipeIn.IsStorable
\* Bound: number of selectors handed to IsStorable.
MaxSelectors == 3

\* svidstore.Type, the marker of the storage capability.
svidstoreType == "SVIDStore"

\* The selector types drawn: the marker as it is, in lower case and in
\* capitals, and the type of another plugin.
SelectorTypes == {"SVIDStore", "svidstore", "SVIDSTORE", "unix"}

\* strings.ToLower on those strings.
ToLower(s) ==
    CASE s \in {"SVIDStore", "svidstore", "SVIDSTORE"} -> "svidstore"
      [] s = "unix" -> "unix"

RECURSIVE IsStorable(_)
\* The loop of IsStorable: true at the first selector whose Type is the
\* lower-cased marker, false when the selectors are used up.
IsStorable(ss) ==
    IF ss = <<>> THEN FALSE
    ELSE IF Head(ss).Type = ToLower(svidstoreType) THEN TRUE
    ELSE IsStorable(Tail(ss))

\* The selector lists drawn: every list of at most MaxSelectors selectors.
SelectorLists ==
    UNION {[1..k -> {[Type |-> t, Value |-> "v"] : t \in SelectorTypes}] : k \in 0..MaxSelectors}

\* No call made yet; and the value a call returned.
NotAsked == [notAsked |-> TRUE]

Answer(b) == [result |-> b]

StorableInit ==
    /\ selectors \in SelectorLists
    /\ storable = NotAsked

\* IsStorable left alone, for the other specifications.
StorableIdle ==
    /\ selectors = <<>>
    /\ storable = NotAsked

\* A caller asks p.IsStorable(selectors) on the pipe as constructed.
IsStorableCall ==
    /\ storable = NotAsked
    /\ storable' = Answer(IsStorable(selectors))
    /\ UNCHANGED <<pipeVars, propVars, svcVars, maskVars, clientVars, selectors>>

\* ----------------------------------------- the consumer of GetUpdate()
\* A receive that finds an item buffered takes the oldest one at once.
ConsumerTake ==
    /\ rpc = "idle"
    /\ outCh # <<>>
    /\ delivered' = Append(delivered, Head(outCh))
    /\ outCh' = Tail(outCh)
    /\ UNCHANGED <<pipeFrame, inNil, inCloses, doneCloses, panicked, readers,
                   writer, outClosed, wg, wpc, held, ppc, pev, cpc, rpc,
                   nextEv, pushes, accepted, evicted, lateEv>>

\* A receive on the empty open channel blocks until a send or the close.
ConsumerBlock ==
    /\ rpc = "idle"
    /\ outCh = <<>>
    /\ ~outClosed
    /\ rpc' = "recv"
    /\ UNCHANGED <<pipeFrame, inNil, inCloses, doneCloses, panicked, readers,
                   writer, outCh, outClosed, wg, wpc, held, ppc, pev, cpc>>
    /\ histUnchanged

\* A receive on the closed, drained channel reports it closed.
ConsumerSeeClosed ==
    /\ rpc \in {"idle", "recv"}
    /\ outCh = <<>>
    /\ outClosed
    /\ rpc' = "end"
    /\ UNCHANGED <<pipeFrame, inNil, inCloses, doneCloses, panicked, readers,
                   writer, outCh, outClosed, wg, wpc, held, ppc, pev, cpc>>
    /\ histUnchanged

\* --------------------------------------- bundle service: trust domains
\* Bounds: bundles held by the repository, items of one batch delete request,
\* largest req.PageSize, root CAs / JWT keys of a bundle handed to applyMask.
MaxBundles == 4
MaxBatch == 3
MaxPageSize == 2
MaxAuthorities == 2

\* spiffeid.TrustDomainFromString: the strings that parse, each with the
\* canonical (lower-case, scheme-less) trust domain name it denotes.  Every
\* other string is malformed.
Spelling ==
    "example.org" :> "example.org" @@ "spiffe://example.org" :> "example.org" @@
    "EXAMPLE.ORG" :> "example.org" @@
    "td1.org" :> "td1.org" @@ "spiffe://td1.org" :> "td1.org" @@
    "td2.org" :> "td2.org" @@ "spiffe://td2.org" :> "td2.org" @@
    "td3.org" :> "td3.org" @@ "spiffe://td3.org" :> "td3.org"

TrustDomainFromString(s) ==
    IF s \in DOMAIN Spelling THEN [name |-> Spelling[s], err |-> FALSE]
                             ELSE [name |-> "", err |-> TRUE]

\* TrustDomain.String(): the bare name.
String(td) == td.name

\* TrustDomain.IDString(): the name behind the spiffe:// scheme.
IDString(td) ==
    CASE td.name = "example.org" -> "spiffe://example.org"
      [] td.name = "td1.org" -> "spiffe://td1.org"
      [] td.name = "td2.org" -> "spiffe://td2.org"
      [] td.name = "td3.org" -> "spiffe://td3.org"

\* TrustDomain.Compare: 0 iff both are the same trust domain.
Compare(a, b) == IF a.name = b.name THEN 0 ELSE 1

\* Service.td, as the service is set up: the trust domain "example.org".
s_td == TrustDomainFromString("example.org")

\* The strings that parse to the server's own trust domain: the bare name,
\* the spiffe:// id form and another letter case.
OwnRepresentations ==
    {s \in DOMAIN Spelling : Compare(s_td, TrustDomainFromString(s)) = 0}

\* ------------------------------------------------ bundle service: applyMask
\* A nil *types.BundleMask, a nil *common.Bundle, a nil *types.Bundle.
NilMask == [nilMask |-> TRUE]
NilBundle == [nilBundle |-> TRUE]
NilView == [nilView |-> TRUE]

defaultMask ==
    [TrustDomain |-> TRUE, RefreshHint |-> TRUE, SequenceNumber |-> TRUE,
     X509Authorities |-> TRUE, JwtAuthorities |-> TRUE]

\* Every *types.BundleMask.
BundleMasks ==
    [TrustDomain : BOOLEAN, RefreshHint : BOOLEAN, SequenceNumber : BOOLEAN,
     X509Authorities : BOOLEAN, JwtAuthorities : BOOLEAN]

\* for _, rootCA := range b.RootCas { append(&types.X509Certificate{Asn1: rootCA.DerBytes}) }
X509AuthoritiesOf(b) ==
    [i \in 1..Len(b.RootCas) |-> [Asn1 |-> b.RootCas[i].DerBytes]]

\* for _, JWTSigningKey := range b.JwtSigningKeys { append(&types.JWTKey{...}) }
JwtAuthoritiesOf(b) ==
    [i \in 1..Len(b.JwtSigningKeys) |->
        [PublicKey |-> b.JwtSigningKeys[i].PkixBytes,
         KeyId |-> b.JwtSigningKeys[i].Kid,
         ExpiresAt |-> b.JwtSigningKeys[i].NotAfter]]

\* An applyMask that copies the refresh hint whatever its flag says.
applyMaskKeepsRefreshHint(b, mask) ==
    LET m == IF mask = NilMask THEN defaultMask ELSE mask
        td == TrustDomainFromString(b.TrustDomainId)
    IN  IF m.TrustDomain /\ td.err
        THEN [err |-> TRUE, out |-> NilView]
        ELSE [err |-> FALSE,
              out |-> [TrustDomain |-> IF m.TrustDomain THEN String(td) ELSE "",
                       RefreshHint |-> b.RefreshHint,
                       SequenceNumber |-> 0,
                       X509Authorities |-> IF m.X509Authorities THEN X509AuthoritiesOf(b) ELSE <<>>,
                       JwtAuthorities |-> IF m.JwtAuthorities THEN JwtAuthoritiesOf(b) ELSE <<>>]]

\* applyMask(b, mask): the view of b, or the parse error of b.TrustDomainId
\* when the mask asks for the trust domain.  A field left out keeps its zero
\* value; the sequence number is 0 on both branches of its flag.
applyMask(b, mask) ==
    LET m == IF mask = NilMask THEN defaultMask ELSE mask
        td == TrustDomainFromString(b.TrustDomainId)
    IN  IF m.TrustDomain /\ td.err
        THEN [err |-> TRUE, out |-> NilView]
        ELSE [err |-> FALSE,
              out |-> [TrustDomain |-> IF m.TrustDomain THEN String(td) ELSE "",
                       RefreshHint |-> IF m.RefreshHint THEN b.RefreshHint ELSE 0,
                       SequenceNumber |-> IF m.SequenceNumber THEN 0 ELSE 0,
                       X509Authorities |-> IF m.X509Authorities THEN X509AuthoritiesOf(b) ELSE <<>>,
                       JwtAuthorities |-> IF m.JwtAuthorities THEN JwtAuthoritiesOf(b) ELSE <<>>]]

\* The bundles and masks applyMask is applied to on its own: every sequence
\* of up to MaxAuthorities root CAs and JWT keys, ids that parse (in several
\* spellings) and one that does not.
Certs == {[DerBytes |-> "der1"], [DerBytes |-> "der2"]}
JwtKeys == {[PkixBytes |-> "pkix1", Kid |-> "kid1", NotAfter |-> 1],
            [PkixBytes |-> "pkix2", Kid |-> "kid2", NotAfter |-> 2]}

SeqsUpTo(S, n) == UNION {[1..k -> S] : k \in 0..n}

MaskBundles ==
    [TrustDomainId : {"spiffe://example.org", "td1.org", "EXAMPLE.ORG", "invalid TD"},
     RefreshHint : {0, 60},
     RootCas : SeqsUpTo(Certs, MaxAuthorities),
     JwtSigningKeys : SeqsUpTo(JwtKeys, MaxAuthorities)]

NotApplied == [notApplied |-> TRUE]

MaskInit ==
    /\ maskB \in MaskBundles
    /\ maskM \in BundleMasks \cup {NilMask}
    /\ maskOut = NotApplied

\* applyMask left alone, for the other specifications.
MaskIdle ==
    /\ maskB = NilBundle
    /\ maskM = NilMask
    /\ maskOut = NotApplied

\* One application of applyMask to the bundle and mask drawn.
MaskApply ==
    /\ maskOut = NotApplied
    /\ maskOut' = applyMask(maskB, maskM)
    /\ UNCHANGED <<pipeVars, propVars, svcVars, storableVars, clientVars, maskB, maskM>>

\* ----------------------------------------- bundle service: the repository
\* The ids bundles are stored under, in the order ListBundles returns them.
\* The repository takes any string as an id: ids in the spiffe:// form, a bare
\* name, the spellings of the server's own trust domain and a corrupt id.
RepoOrder ==
    <<"EXAMPLE.ORG", "spiffe://example.org", "spiffe://td1.org", "invalid TD",
      "spiffe://td2.org", "spiffe://td3.org", "td1.org", "example.org">>

Rank(id) == IF id = "" THEN 0 ELSE CHOOSE i \in 1..Len(RepoOrder) : RepoOrder[i] = id

RECURSIVE Keep(_, _)
\* The subsequence of s of the elements in S.
Keep(s, S) ==
    IF s = <<>> THEN <<>>
    ELSE IF Head(s) \in S THEN <<Head(s)>> \o Keep(Tail(s), S)
    ELSE Keep(Tail(s), S)

\* The contents the repository can have: the ids stored, in order.
Repositories ==
    {Keep(RepoOrder, S) : S \in {T \in SUBSET Range(RepoOrder) : Cardinality(T) <= MaxBundles}}

\* The *common.Bundle stored under an id.
BundleOf(id) ==
    [TrustDomainId |-> id,
     RefreshHint |-> 60,
     RootCas |-> <<[DerBytes |-> <<"cert", id>>]>>,
     JwtSigningKeys |-> <<[PkixBytes |-> <<"key", id>>, Kid |-> <<"kid", id>>, NotAfter |-> 1]>>]

BundlesOf(ids) == [i \in 1..Len(ids) |-> BundleOf(ids[i])]

NoPagination == [nilPagination |-> TRUE]
NoError == [nilError |-> TRUE]

\* Each repository call either fails (fails = TRUE: an I/O error of the
\* datastore) or does its work.
\* ds.FetchBundle(TrustDomainId): the bundle stored under exactly this id, a
\* nil bundle when there is none, or the repository's error.
FetchBundle(id, fails) ==
    IF fails THEN [err |-> TRUE, Bundle |-> NilBundle]
    ELSE IF id \in Range(ds) THEN [err |-> FALSE, Bundle |-> BundleOf(id)]
    ELSE [err |-> FALSE, Bundle |-> NilBundle]

\* ds.ListBundles(Pagination): without pagination every bundle; with it the
\* next PageSize bundles after the entry named by Token, and as next token
\* the id of the last bundle returned (empty when none is returned).
ListBundles(pagination, fails) ==
    IF fails THEN [err |-> TRUE, Bundles |-> <<>>, Pagination |-> NoPagination]
    ELSE IF pagination = NoPagination
    THEN [err |-> FALSE, Bundles |-> BundlesOf(ds), Pagination |-> NoPagination]
    ELSE LET after == Keep(ds, {id \in Range(ds) : Rank(id) > Rank(pagination.Token)})
             page == SubSeq(after, 1, IF pagination.PageSize < Len(after)
                                      THEN pagination.PageSize ELSE Len(after))
         IN  [err |-> FALSE,
              Bundles |-> BundlesOf(page),
              Pagination |-> [PageSize |-> pagination.PageSize,
                              Token |-> IF page = <<>> THEN "" ELSE page[Len(page)]]]

\* ds.DeleteBundle(TrustDomainId, RESTRICT): removes the bundle stored under
\* exactly this id; NotFound when there is none; or the repository's error.
DeleteBundle(id, fails) ==
    IF fails THEN [outcome |-> "error", ds |-> ds]
    ELSE IF id \notin Range(ds) THEN [outcome |-> "NotFound", ds |-> ds]
    ELSE [outcome |-> "deleted", ds |-> Keep(ds, Range(ds) \ {id})]

\* ------------------------------------- bundle service: requests, responses
NoRequest ==
    [op |-> "none", TrustDomain |-> "", OutputMask |-> NilMask, PageSize |-> 0,
     PageToken |-> "", TrustDomains |-> <<>>]

\* code is the gRPC code of the error returned ("OK" for a nil error,
\* "pending" while the call runs); the other fields are the response message.
NoResponse ==
    [code |-> "none", Bundle |-> NilView, Bundles |-> <<>>, NextPageToken |-> "",
     Results |-> <<>>]

\* The handler's position: "idle" (no call), "deleting" (in the loop of the
\* batch delete) or "returned"; and the history of the call: its repository
\* calls, the repository outcome of each batch item, and the repository as
\* the call found it.
Returned(calls) == [pc |-> "returned", calls |-> calls, items |-> <<>>, dsBefore |-> ds]

SvcInit ==
    /\ ds \in Repositories
    /\ req = NoRequest
    /\ resp = NoResponse
    /\ svc = [pc |-> "idle", calls |-> <<>>, items |-> <<>>, dsBefore |-> ds]

\* The response has gone to the client: the service keeps nothing of a call.
Return ==
    /\ svc.pc = "returned"
    /\ req' = NoRequest
    /\ resp' = NoResponse
    /\ svc' = [pc |-> "idle", calls |-> <<>>, items |-> <<>>, dsBefore |-> ds]
    /\ UNCHANGED <<pipeVars, propVars, maskVars, storableVars, ds>>

\* The service left alone, for the other specifications.
SvcIdle ==
    /\ SvcInit
    /\ ds = <<>>

\* The masks, trust domain strings and page tokens of the requests drawn.
RequestMasks ==
    {NilMask,
     [TrustDomain |-> FALSE, RefreshHint |-> FALSE, SequenceNumber |-> FALSE,
      X509Authorities |-> FALSE, JwtAuthorities |-> FALSE],
     [TrustDomain |-> FALSE, RefreshHint |-> TRUE, SequenceNumber |-> FALSE,
      X509Authorities |-> TRUE, JwtAuthorities |-> FALSE]}

GetInputs == DOMAIN Spelling \cup {"malformed TD"}

BatchInputs ==
    {"malformed TD", "example.org", "spiffe://example.org", "EXAMPLE.ORG",
     "spiffe://td1.org"}

PageTokens == {""} \cup Range(RepoOrder)

\* ------------------------------------ bundle service: GetFederatedBundle
\* A handler that fetches the bundle before it looks at the trust domain.
GetFederatedBundleFetchesFirst(trustDomain, mask, fails) ==
    LET td == TrustDomainFromString(trustDomain)
        dsResp == FetchBundle(IDString(td), fails)
        b == applyMask(dsResp.Bundle, mask)
        fetch == <<[fn |-> "FetchBundle", id |-> IDString(td)]>>
    IN  IF td.err
        THEN [code |-> "InvalidArgument", Bundle |-> NilView, calls |-> <<>>]
        ELSE IF dsResp.err
        THEN [code |-> "Internal", Bundle |-> NilView, calls |-> fetch]
        ELSE IF Compare(s_td, td) = 0
        THEN [code |-> "InvalidArgument", Bundle |-> NilView, calls |-> fetch]
        ELSE IF dsResp.Bundle = NilBundle
        THEN [code |-> "NotFound", Bundle |-> NilView, calls |-> fetch]
        ELSE IF b.err
        THEN [code |-> "Internal", Bundle |-> NilView, calls |-> fetch]
        ELSE [code |-> "OK", Bundle |-> b.out, calls |-> fetch]

\* What GetFederatedBundle returns, and the repository calls it makes.
GetFederatedBundle(trustDomain, mask, fails) ==
    LET td == TrustDomainFromString(trustDomain)
        dsResp == FetchBundle(IDString(td), fails)
        b == applyMask(dsResp.Bundle, mask)
        fetch == <<[fn |-> "FetchBundle", id |-> IDString(td)]>>
    IN  IF td.err
        THEN [code |-> "InvalidArgument", Bundle |-> NilView, calls |-> <<>>]
        ELSE IF Compare(s_td, td) = 0
        THEN [code |-> "InvalidArgument", Bundle |-> NilView, calls |-> <<>>]
        ELSE IF dsResp.err
        THEN [code |-> "Internal", Bundle |-> NilView, calls |-> fetch]
        ELSE IF dsResp.Bundle = NilBundle
        THEN [code |-> "NotFound", Bundle |-> NilView, calls |-> fetch]
        ELSE IF b.err
        THEN [code |-> "Internal", Bundle |-> NilView, calls |-> fetch]
        ELSE [code |-> "OK", Bundle |-> b.out, calls |-> fetch]

\* A client calls GetFederatedBundle; the handler runs to its return.
GetFederatedBundleCall(trustDomain, mask, fails) ==
    /\ svc.pc = "idle"
    /\ LET r == GetFederatedBundle(trustDomain, mask, fails)
       IN  /\ req' = [NoRequest EXCEPT !.op = "GetFederatedBundle",
                                       !.TrustDomain = trustDomain,
                                       !.OutputMask = mask]
           /\ resp' = [NoResponse EXCEPT !.code = r.code, !.Bundle = r.Bundle]
           /\ svc' = Returned(r.calls)
    /\ UNCHANGED <<pipeVars, propVars, maskVars, storableVars, ds>>

\* ------------------------------------------------ bundle service: GetBundle
\* What GetBundle returns, and the repository calls it makes: the bundle of
\* the server's own trust domain, fetched under its id form.
GetBundle(mask, fails) ==
    LET dsResp == FetchBundle(IDString(s_td), fails)
        b == applyMask(dsResp.Bundle, mask)
        fetch == <<[fn |-> "FetchBundle", id |-> IDString(s_td)]>>
    IN  IF dsResp.err
        THEN [code |-> "Internal", Bundle |-> NilView, calls |-> fetch]
        ELSE IF dsResp.Bundle = NilBundle
        THEN [code |-> "NotFound", Bundle |-> NilView, calls |-> fetch]
        ELSE IF b.err
        THEN [code |-> "Internal", Bundle |-> NilView, calls |-> fetch]
        ELSE [code |-> "OK", Bundle |-> b.out, calls |-> fetch]

\* A GetBundle that stores an empty bundle for the server when it finds none.
GetBundleCallCreatesBundle(mask, fails) ==
    /\ svc.pc = "idle"
    /\ LET r == GetBundle(mask, fails)
       IN  /\ req' = [NoRequest EXCEPT !.op = "GetBundle", !.OutputMask = mask]
           /\ resp' = [NoResponse EXCEPT !.code = r.code, !.Bundle = r.Bundle]
           /\ svc' = Returned(r.calls)
           /\ ds' = IF r.code = "NotFound"
                    THEN Keep(RepoOrder, Range(ds) \cup {IDString(s_td)})
                    ELSE ds
    /\ UNCHANGED <<pipeVars, propVars, maskVars, storableVars>>

\* A client calls GetBundle; the handler runs to its return.
GetBundleCall(mask, fails) ==
    /\ svc.pc = "idle"
    /\ LET r == GetBundle(mask, fails)
       IN  /\ req' = [NoRequest EXCEPT !.op = "GetBundle", !.OutputMask = mask]
           /\ resp' = [NoResponse EXCEPT !.code = r.code, !.Bundle = r.Bundle]
           /\ svc' = Returned(r.calls)
    /\ UNCHANGED <<pipeVars, propVars, maskVars, storableVars, ds>>

\* ------------------------------- bundle service: the unimplemented methods
\* Each returns (nil, Unimplemented) at once and calls nothing.
AppendBundle == [code |-> "Unimplemented", calls |-> <<>>]

PublishJWTAuthority == [code |-> "Unimplemented", calls |-> <<>>]

BatchCreateFederatedBundle == [code |-> "Unimplemented", calls |-> <<>>]

BatchUpdateFederatedBundle == [code |-> "Unimplemented", calls |-> <<>>]

BatchSetFederatedBundle == [code |-> "Unimplemented", calls |-> <<>>]

UnimplementedMethods ==
    {"AppendBundle", "PublishJWTAuthority", "BatchCreateFederatedBundle",
     "BatchUpdateFederatedBundle", "BatchSetFederatedBundle"}

MethodResult(op) ==
    CASE op = "AppendBundle" -> AppendBundle
      [] op = "PublishJWTAuthority" -> PublishJWTAuthority
      [] op = "BatchCreateFederatedBundle" -> BatchCreateFederatedBundle
      [] op = "BatchUpdateFederatedBundle" -> BatchUpdateFederatedBundle
      [] op = "BatchSetFederatedBundle" -> BatchSetFederatedBundle

\* A client calls one of the unimplemented methods.
UnimplementedCall(op) ==
    /\ svc.pc = "idle"
    /\ LET r == MethodResult(op)
       IN  /\ req' = [NoRequest EXCEPT !.op = op]
           /\ resp' = [NoResponse EXCEPT !.code = r.code]
           /\ svc' = Returned(r.calls)
    /\ UNCHANGED <<pipeVars, propVars, maskVars, storableVars, ds>>

\* ----------------------------------- bundle service: ListFederatedBundles
RECURSIVE ListLoopKeepsServerBundle(_, _, _)
\* A loop without the filter of the server bundle.
ListLoopKeepsServerBundle(rest, mask, acc) ==
    IF rest = <<>> THEN [code |-> "OK", Bundles |-> acc]
    ELSE LET dsBundle == Head(rest)
             td == TrustDomainFromString(dsBundle.TrustDomainId)
             b == applyMask(dsBundle, mask)
         IN  IF td.err THEN [code |-> "Internal", Bundles |-> <<>>]
             ELSE IF b.err THEN [code |-> "Internal", Bundles |-> <<>>]
             ELSE ListLoopKeepsServerBundle(Tail(rest), mask, Append(acc, b.out))

RECURSIVE ListLoopSkipsInvalid(_, _, _)
\* A loop that passes over a bundle whose id does not parse.
ListLoopSkipsInvalid(rest, mask, acc) ==
    IF rest = <<>> THEN [code |-> "OK", Bundles |-> acc]
    ELSE LET dsBundle == Head(rest)
             td == TrustDomainFromString(dsBundle.TrustDomainId)
             b == applyMask(dsBundle, mask)
         IN  IF td.err THEN ListLoopSkipsInvalid(Tail(rest), mask, acc)
             ELSE IF Compare(s_td, td) = 0 THEN ListLoopSkipsInvalid(Tail(rest), mask, acc)
             ELSE IF b.err THEN [code |-> "Internal", Bundles |-> <<>>]
             ELSE ListLoopSkipsInvalid(Tail(rest), mask, Append(acc, b.out))

RECURSIVE ListLoop(_, _, _)
\* for _, dsBundle := range dsResp.Bundles { ... }: rest are the bundles still
\* to visit, acc is resp.Bundles so far.
ListLoop(rest, mask, acc) ==
    IF rest = <<>> THEN [code |-> "OK", Bundles |-> acc]
    ELSE LET dsBundle == Head(rest)
             td == TrustDomainFromString(dsBundle.TrustDomainId)
             b == applyMask(dsBundle, mask)
         IN  IF td.err THEN [code |-> "Internal", Bundles |-> <<>>]
             ELSE IF Compare(s_td, td) = 0 THEN ListLoop(Tail(rest), mask, acc)
             ELSE IF b.err THEN [code |-> "Internal", Bundles |-> <<>>]
             ELSE ListLoop(Tail(rest), mask, Append(acc, b.out))

\* A request that forwards the page size without the client's page token.
ListRequestWithoutToken(pageSize, pageToken) ==
    IF pageSize > 0 THEN [PageSize |-> pageSize, Token |-> ""] ELSE NoPagination

\* listReq.Pagination is set only when req.PageSize > 0.
ListRequest(pageSize, pageToken) ==
    IF pageSize > 0 THEN [PageSize |-> pageSize, Token |-> pageToken] ELSE NoPagination

\* A handler that leaves resp.NextPageToken unset.
ListFederatedBundlesDropsToken(pageSize, pageToken, mask, fails) ==
    LET listReq == ListRequest(pageSize, pageToken)
        dsResp == ListBundles(listReq, fails)
        loop == ListLoop(dsResp.Bundles, mask, <<>>)
        list == <<[fn |-> "ListBundles", id |-> pageToken]>>
    IN  IF dsResp.err
        THEN [code |-> "Internal", Bundles |-> <<>>, NextPageToken |-> "", calls |-> list]
        ELSE IF loop.code # "OK"
        THEN [code |-> loop.code, Bundles |-> <<>>, NextPageToken |-> "", calls |-> list]
        ELSE [code |-> "OK", Bundles |-> loop.Bundles, NextPageToken |-> "", calls |-> list]

\* What ListFederatedBundles returns, and the repository calls it makes.  An
\* error return carries no response, so neither bundles nor token.
ListFederatedBundles(pageSize, pageToken, mask, fails) ==
    LET listReq == ListRequest(pageSize, pageToken)
        dsResp == ListBundles(listReq, fails)
        loop == ListLoop(dsResp.Bundles, mask, <<>>)
        list == <<[fn |-> "ListBundles", id |-> pageToken]>>
    IN  IF dsResp.err
        THEN [code |-> "Internal", Bundles |-> <<>>, NextPageToken |-> "", calls |-> list]
        ELSE IF loop.code # "OK"
        THEN [code |-> loop.code, Bundles |-> <<>>, NextPageToken |-> "", calls |-> list]
        ELSE [code |-> "OK",
              Bundles |-> loop.Bundles,
              NextPageToken |-> IF dsResp.Pagination # NoPagination
                                THEN dsResp.Pagination.Token ELSE "",
              calls |-> list]

\* A client calls ListFederatedBundles; the handler runs to its return.
ListFederatedBundlesCall(pageSize, pageToken, mask, fails) ==
    /\ svc.pc = "idle"
    /\ \E r \in {ListFederatedBundles(pageSize, pageToken, mask, fails)} :
           /\ req' = [NoRequest EXCEPT !.op = "ListFederatedBundles",
                                       !.PageSize = pageSize,
                                       !.PageToken = pageToken,
                                       !.OutputMask = mask]
           /\ resp' = [NoResponse EXCEPT !.code = r.code, !.Bundles = r.Bundles,
                                         !.NextPageToken = r.NextPageToken]
           /\ svc' = Returned(r.calls)
    /\ UNCHANGED <<pipeVars, propVars, maskVars, storableVars, ds>>

\* ------------------------------ bundle service: BatchDeleteFederatedBundle
\* status.Errorf(code, ...): a gRPC error; api.CreateStatus; a nil *types.Status.
Errorf(code, msg) == [Code |-> code, Message |-> msg]
CreateStatus(code, msg) == [Code |-> code, Message |-> msg]
NilStatus == [nilStatus |-> TRUE]

\* api.StatusFromError: nil for a nil error, else the code and message of
\* the error's gRPC status.
StatusFromError(err) ==
    IF err = NoError THEN NilStatus ELSE CreateStatus(err.Code, err.Message)

\* A deleteFederatedBundle that compares the string it was given with the
\* name of the server's trust domain.
deleteFederatedBundleComparesStrings(trustDomain, fails) ==
    LET td == TrustDomainFromString(trustDomain)
        del == DeleteBundle(String(td), fails)
    IN  IF td.err
        THEN [err |-> Errorf("InvalidArgument", "malformed trust domain"),
              ds |-> ds, outcome |-> "no call", calls |-> <<>>]
        ELSE IF trustDomain = String(s_td)
        THEN [err |-> Errorf("InvalidArgument", "no possible to delete server bundle"),
              ds |-> ds, outcome |-> "no call", calls |-> <<>>]
        ELSE [err |-> IF del.outcome # "deleted"
                      THEN Errorf("Internal", "failed to delete Federated Bundle")
                      ELSE NoError,
              ds |-> del.ds,
              outcome |-> del.outcome,
              calls |-> <<[fn |-> "DeleteBundle", id |-> String(td)]>>]

\* A deleteFederatedBundle without the check for the server's trust domain.
deleteFederatedBundleNoServerCheck(trustDomain, fails) ==
    LET td == TrustDomainFromString(trustDomain)
        del == DeleteBundle(String(td), fails)
    IN  IF td.err
        THEN [err |-> Errorf("InvalidArgument", "malformed trust domain"),
              ds |-> ds, outcome |-> "no call", calls |-> <<>>]
        ELSE [err |-> IF del.outcome # "deleted"
                      THEN Errorf("Internal", "failed to delete Federated Bundle")
                      ELSE NoError,
              ds |-> del.ds,
              outcome |-> del.outcome,
              calls |-> <<[fn |-> "DeleteBundle", id |-> String(td)]>>]

\* deleteFederatedBundle(trustDomain): the error it returns, the repository
\* after it, and what the repository did ("no call" when it was not called).
deleteFederatedBundle(trustDomain, fails) ==
    LET td == TrustDomainFromString(trustDomain)
        del == DeleteBundle(String(td), fails)
    IN  IF td.err
        THEN [err |-> Errorf("InvalidArgument", "malformed trust domain"),
              ds |-> ds, outcome |-> "no call", calls |-> <<>>]
        ELSE IF Compare(s_td, td) = 0
        THEN [err |-> Errorf("InvalidArgument", "no possible to delete server bundle"),
              ds |-> ds, outcome |-> "no call", calls |-> <<>>]
        ELSE [err |-> IF del.outcome # "deleted"
                      THEN Errorf("Internal", "failed to delete Federated Bundle")
                      ELSE NoError,
              ds |-> del.ds,
              outcome |-> del.outcome,
              calls |-> <<[fn |-> "DeleteBundle", id |-> String(td)]>>]

\* A handler without the check for an empty request.
BatchDeleteFederatedBundleNoEmptyCheck(trustDomains) ==
    /\ svc.pc = "idle"
    /\ req' = [NoRequest EXCEPT !.op = "BatchDeleteFederatedBundle",
                                !.TrustDomains = trustDomains]
    /\ IF Len(trustDomains) = 0
       THEN /\ resp' = [NoResponse EXCEPT !.code = "OK"]
            /\ svc' = Returned(<<>>)
       ELSE /\ resp' = [NoResponse EXCEPT !.code = "pending"]
            /\ svc' = [Returned(<<>>) EXCEPT !.pc = "deleting"]
    /\ UNCHANGED <<pipeVars, propVars, maskVars, storableVars, ds>>

\* A client calls BatchDeleteFederatedBundle: the handler returns
\* InvalidArgument for an empty request, else it enters its loop.
BatchDeleteFederatedBundleCall(trustDomains) ==
    /\ svc.pc = "idle"
    /\ req' = [NoRequest EXCEPT !.op = "BatchDeleteFederatedBundle",
                                !.TrustDomains = trustDomains]
    /\ IF Len(trustDomains) = 0
       THEN /\ resp' = [NoResponse EXCEPT !.code = "InvalidArgument"]
            /\ svc' = Returned(<<>>)
       ELSE /\ resp' = [NoResponse EXCEPT !.code = "pending"]
            /\ svc' = [Returned(<<>>) EXCEPT !.pc = "deleting"]
    /\ UNCHANGED <<pipeVars, propVars, maskVars, storableVars, ds>>

\* A loop that stops attempting items once one has failed: every later item
\* is reported as failed without a look at it.
BatchDeleteLoopSkipsAfterFailure(fails) ==
    /\ svc.pc = "deleting"
    /\ LET i == Len(resp.Results) + 1
           trustDomain == req.TrustDomains[i]
           failed == \E k \in 1..Len(resp.Results) : resp.Results[k].Status # NilStatus
           d == deleteFederatedBundle(trustDomain, fails)
           r == IF failed
                THEN [err |-> Errorf("Internal", "skipped"), ds |-> ds,
                      outcome |-> "no call", calls |-> <<>>]
                ELSE d
           last == i = Len(req.TrustDomains)
       IN  /\ ds' = r.ds
           /\ resp' = [resp EXCEPT
                         !.Results = Append(@, [Status |-> StatusFromError(r.err),
                                                TrustDomain |-> trustDomain]),
                         !.code = IF last THEN "OK" ELSE @]
           /\ svc' = [svc EXCEPT !.pc = IF last THEN "returned" ELSE @,
                                 !.calls = @ \o r.calls,
                                 !.items = Append(@, r.outcome)]
    /\ UNCHANGED <<pipeVars, propVars, maskVars, storableVars, req>>

\* A loop that returns the first item's error as the error of the call.
BatchDeleteLoopFailsCall(fails) ==
    /\ svc.pc = "deleting"
    /\ LET i == Len(resp.Results) + 1
           trustDomain == req.TrustDomains[i]
           r == deleteFederatedBundle(trustDomain, fails)
           last == i = Len(req.TrustDomains)
       IN  /\ ds' = r.ds
           /\ IF r.err # NoError
              THEN resp' = [NoResponse EXCEPT !.code = r.err.Code]
              ELSE resp' = [resp EXCEPT
                              !.Results = Append(@, [Status |-> StatusFromError(r.err),
                                                     TrustDomain |-> trustDomain]),
                              !.code = IF last THEN "OK" ELSE @]
           /\ svc' = [svc EXCEPT !.pc = IF last \/ r.err # NoError THEN "returned" ELSE @,
                                 !.calls = @ \o r.calls,
                                 !.items = Append(@, r.outcome)]
    /\ UNCHANGED <<pipeVars, propVars, maskVars, storableVars, req>>

\* One turn of the loop over req.TrustDomains: the next item is deleted and
\* its result appended; after the last item the handler returns the results
\* with a nil error.
BatchDeleteLoop(fails) ==
    /\ svc.pc = "deleting"
    /\ LET i == Len(resp.Results) + 1
           trustDomain == req.TrustDomains[i]
           r == deleteFederatedBundle(trustDomain, fails)
           last == i = Len(req.TrustDomains)
       IN  /\ ds' = r.ds
           /\ resp' = [resp EXCEPT
                         !.Results = Append(@, [Status |-> StatusFromError(r.err),
                                                TrustDomain |-> trustDomain]),
                         !.code = IF last THEN "OK" ELSE @]
           /\ svc' = [svc EXCEPT !.pc = IF last THEN "returned" ELSE @,
                                 !.calls = @ \o r.calls,
                                 !.items = Append(@, r.outcome)]
    /\ UNCHANGED <<pipeVars, propVars, maskVars, storableVars, req>>

\* ------------------------------------- bundle service: a client's sequences
\* A client that makes a sequence of calls against a repository that works
\* (no call to it fails) and that nobody else changes.
\*   "getDelete": GetFederatedBundle(d), BatchDeleteFederatedBundle([d]),
\*                GetFederatedBundle(d), for a federated trust domain d;
\*   "paging":    ListFederatedBundles(pageSize, "") and then again with the
\*                token of the last response, until a response has no token.
\* Bound: the calls of one paging iteration.
MaxPages == MaxBundles + 1

NoClient == [script |-> "none"]

\* The client left alone, for the other specifications.
ClientIdle == client = NoClient

\* The strings that parse to a trust domain other than the server's own.
FederatedInputs == DOMAIN Spelling \ OwnRepresentations

GetDeleteClients ==
    {[script |-> "getDelete", d |-> d, step |-> "get",
      first |-> "none", fetched |-> "", status |-> NilStatus, second |-> "none"] :
        d \in FederatedInputs}

PagingClients ==
    {[script |-> "paging", pageSize |-> n, mask |-> mask, token |-> "",
      pages |-> 0, got |-> <<>>, short |-> FALSE, done |-> FALSE, failed |-> FALSE] :
        n \in 1..MaxPageSize, mask \in {NilMask}}

ClientInit ==
    /\ SvcInit
    /\ client \in GetDeleteClients \cup PagingClients

\* The client's first GetFederatedBundle(d).
GetDeleteFirst ==
    /\ client.script = "getDelete"
    /\ client.step = "get"
    /\ GetFederatedBundleCall(client.d, NilMask, FALSE)
    /\ client' = [client EXCEPT !.step = "delete",
                                !.first = resp'.code,
                                !.fetched = IF svc'.calls = <<>> THEN ""
                                            ELSE svc'.calls[1].id]

\* Its BatchDeleteFederatedBundle([d]): the call, and the loop's one item.
GetDeleteBatch ==
    /\ client.script = "getDelete"
    /\ client.step = "delete"
    /\ BatchDeleteFederatedBundleCall(<<client.d>>)
    /\ client' = [client EXCEPT !.step = "deleting"]

GetDeleteItem ==
    /\ client.script = "getDelete"
    /\ client.step = "deleting"
    /\ BatchDeleteLoop(FALSE)
    /\ client' = [client EXCEPT !.step = "get again",
                                !.status = resp'.Results[1].Status]

\* Its second GetFederatedBundle(d).
GetDeleteSecond ==
    /\ client.script = "getDelete"
    /\ client.step = "get again"
    /\ GetFederatedBundleCall(client.d, NilMask, FALSE)
    /\ client' = [client EXCEPT !.step = "done", !.second = resp'.code]

\* One call of the paging iteration, with the token of the last response.
PagingCall ==
    /\ client.script = "paging"
    /\ ~client.done
    /\ client.pages < MaxPages
    /\ ListFederatedBundlesCall(client.pageSize, client.token, client.mask, FALSE)
    /\ client' = [client EXCEPT
                    !.pages = @ + 1,
                    !.got = @ \o resp'.Bundles,
                    !.token = resp'.NextPageToken,
                    !.short = @ \/ (/\ resp'.code = "OK"
                                    /\ resp'.NextPageToken # ""
                                    /\ Len(resp'.Bundles) < client.pageSize),
                    !.failed = resp'.code # "OK",
                    !.done = resp'.code # "OK" \/ resp'.NextPageToken = ""]

\* The call returns to the client.
ClientReturn ==
    /\ client.script # "none"
    /\ Return
    /\ UNCHANGED clientVars

ClientNext ==
    \/ GetDeleteFirst
    \/ GetDeleteBatch
    \/ GetDeleteItem
    \/ GetDeleteSecond
    \/ PagingCall
    \/ ClientReturn

\* ------------------------------------- svid: state property, KeysAndBundle
\* Bound: number of Update calls of the rotation writer.
MaxUpdates == 2

\* The goroutines calling the KeysAndBundle accessor (transport handshakes).
Readers == {"r1", "r2"}

\* c.TrustDomain.String(), and another trust domain's id.
TrustDomain == "spiffe://example.org"
OtherDomain == "spiffe://other.org"

\* The k-th credential: State{SVID, Key}.  Certificate chain and key of one
\* publication carry its number, so a pair mixed from two publications shows.
StateOf(k) == [SVID |-> k, Key |-> k]

\* The bundle maps c.BundleStream can hold: map[string]*bundleutil.Bundle,
\* a bundle given by its root CAs.
BundleMaps ==
    { [d \in {OtherDomain} |-> <<"ca9">>],
      [d \in {TrustDomain, OtherDomain} |-> IF d = TrustDomain THEN <<"ca1">> ELSE <<"ca9">>],
      [d \in {TrustDomain} |-> <<"ca1", "ca2">>] }

NoResult == [none |-> TRUE]

\* state := observer.NewProperty(State{SVID: c.SVID, Key: c.SVIDKey})
PropInit ==
    /\ state = StateOf(0)
    /\ bundles \in BundleMaps
    /\ published = {StateOf(0)}
    /\ updates = 0
    /\ upc = "idle"
    /\ ulast = StateOf(0)
    /\ ugot = StateOf(0)
    /\ kpc = [r \in Readers |-> "idle"]
    /\ ks = [r \in Readers |-> NoResult]
    /\ kb = [r \in Readers |-> NoResult]
    /\ kres = [r \in Readers |-> NoResult]

\* The property and the accessor left alone, for the other specifications.
PropIdle ==
    /\ PropInit
    /\ bundles = [d \in {OtherDomain} |-> <<"ca9">>]

\* Property.Value(): the value held now.
Value == state

\* Property.Update(v) by the one rotation writer: the held value is replaced
\* as a whole.
Update(v) ==
    /\ upc = "idle"
    /\ updates < MaxUpdates
    /\ updates' = updates + 1
    /\ state' = v
    /\ published' = published \cup {v}
    /\ ulast' = v
    /\ upc' = "updated"
    /\ UNCHANGED <<propFrame, bundles, ugot, kpc, ks, kb, kres>>

\* The writer calls Value() right after its Update, on the same path.
UpdaterValue ==
    /\ upc = "updated"
    /\ ugot' = Value
    /\ upc' = "idle"
    /\ UNCHANGED <<propFrame, state, bundles, published, updates, ulast, kpc, ks, kb, kres>>

\* The bundle stream publishes another bundle map.
BundleUpdate(m) ==
    /\ bundles # m
    /\ bundles' = m
    /\ UNCHANGED <<propFrame, state, published, updates, upc, ulast, ugot, kpc, ks, kb, kres>>

\* An accessor that serves the State from a cache of earlier publications.
KeysReadStateStale(r) ==
    /\ kpc[r] = "idle"
    /\ \E v \in published : ks' = [ks EXCEPT ![r] = v]
    /\ kpc' = [kpc EXCEPT ![r] = "bundles"]
    /\ UNCHANGED <<propFrame, state, bundles, published, updates, upc, ulast, ugot, kb, kres>>

\* s := state.Value().(State)
KeysReadState(r) ==
    /\ kpc[r] = "idle"
    /\ ks' = [ks EXCEPT ![r] = Value]
    /\ kpc' = [kpc EXCEPT ![r] = "bundles"]
    /\ UNCHANGED <<propFrame, state, bundles, published, updates, upc, ulast, ugot, kb, kres>>

\* bsm.RLock(); bundles := c.BundleStream.Value(); bsm.RUnlock()
KeysReadBundles(r) ==
    /\ kpc[r] = "bundles"
    /\ kb' = [kb EXCEPT ![r] = bundles]
    /\ kpc' = [kpc EXCEPT ![r] = "return"]
    /\ UNCHANGED <<propFrame, state, bundles, published, updates, upc, ulast, ugot, ks, kres>>

\* A lookup without the nil check: bundle.RootCAs() on the nil bundle of a
\* missing key.
RootCAsOfNoNilCheck(m) ==
    IF TrustDomain \in DOMAIN m THEN m[TrustDomain] ELSE <<"nil pointer dereference">>

\* if bundle := bundles[c.TrustDomain.String()]; bundle != nil { rootCAs = bundle.RootCAs() }
\* A key missing from a Go map yields nil, and rootCAs stays the nil slice.
RootCAsOf(m) == IF TrustDomain \in DOMAIN m THEN m[TrustDomain] ELSE <<>>

\* An accessor that reads the property a second time for the key.
KeysReturnRereads(r) ==
    /\ kpc[r] = "return"
    /\ kres' = [kres EXCEPT ![r] =
                  [svid |-> ks[r].SVID, key |-> Value.Key, rootCAs |-> RootCAsOf(kb[r])]]
    /\ ks' = [ks EXCEPT ![r] = NoResult]
    /\ kb' = [kb EXCEPT ![r] = NoResult]
    /\ kpc' = [kpc EXCEPT ![r] = "idle"]
    /\ UNCHANGED <<propFrame, state, bundles, published, updates, upc, ulast, ugot>>

\* return s.SVID, s.Key, rootCAs
KeysReturn(r) ==
    /\ kpc[r] = "return"
    /\ kres' = [kres EXCEPT ![r] =
                  [svid |-> ks[r].SVID, key |-> ks[r].Key, rootCAs |-> RootCAsOf(kb[r])]]
    /\ ks' = [ks EXCEPT ![r] = NoResult]
    /\ kb' = [kb EXCEPT ![r] = NoResult]
    /\ kpc' = [kpc EXCEPT ![r] = "idle"]
    /\ UNCHANGED <<propFrame, state, bundles, published, updates, upc, ulast, ugot>>

KeysAndBundle(r) == KeysReadState(r) \/ KeysReadBundles(r) \/ KeysReturn(r)

PropNext ==
    \/ Update(StateOf(updates + 1))
    \/ UpdaterValue
    \/ \E m \in BundleMaps : BundleUpdate(m)
    \/ \E r \in Readers : KeysAndBundle(r)

PropSpecInit ==
    PropInit /\ PipeIdle /\ SvcIdle /\ MaskIdle /\ StorableIdle /\ ClientIdle

PropSpec == PropSpecInit /\ [][PropNext]_vars

\* ------------------------------------------------------------ specification
PushStep(p) == PushRLock(p) \/ PushSend(p) \/ PushDone(p)

CloseStep(c) ==
    CloseLock(c) \/ CloseTeardown(c) \/ CloseNoop(c) \/ CloseWait(c)

WorkerStep ==
    \/ WorkerRangeEnd
    \/ WorkerSkipNil
    \/ WorkerSelectSend
    \/ WorkerSelectDefault
    \/ WorkerEvict
    \/ WorkerResend
    \/ WorkerCloseOut
    \/ WorkerWgDone

ConsumerStep == ConsumerTake \/ ConsumerBlock \/ ConsumerSeeClosed

Init ==
    PipeInit /\ PropIdle /\ SvcIdle /\ MaskIdle /\ StorableIdle /\ ClientIdle

Next ==
    \/ \E p \in Pushers : PushCall(p) \/ PushStep(p)
    \/ \E c \in Closers : CloseCall(c) \/ CloseStep(c)
    \/ WorkerStep
    \/ ConsumerStep

Spec == Init /\ [][Next]_vars

\* The Go scheduler runs every runnable goroutine: each step inside Push, Close,
\* the forwarding goroutine and a consumer that keeps reading is taken once it
\* stays possible.  Calling Push or Close is the caller's choice.
Fairness ==
    /\ \A p \in Pushers : WF_vars(PushStep(p))
    /\ \A c \in Closers : WF_vars(CloseStep(c))
    /\ WF_vars(WorkerStep)
    /\ WF_vars(ConsumerStep)

FairSpec == Init /\ [][Next]_vars /\ Fairness

\* The bundle service: clients call the three operations one call at a
\* time, and each repository call may fail.
SvcNext ==
    \/ /\ svc.pc = "idle"
       /\ UNCHANGED clientVars
       /\ \/ \E trustDomain \in GetInputs, mask \in RequestMasks, fails \in BOOLEAN :
                GetFederatedBundleCall(trustDomain, mask, fails)
          \/ \E pageSize \in 0..MaxPageSize, pageToken \in PageTokens,
                mask \in RequestMasks, fails \in BOOLEAN :
                ListFederatedBundlesCall(pageSize, pageToken, mask, fails)
          \/ \E trustDomains \in SeqsUpTo(BatchInputs, MaxBatch) :
                BatchDeleteFederatedBundleCall(trustDomains)
          \/ \E mask \in RequestMasks, fails \in BOOLEAN : GetBundleCall(mask, fails)
          \/ \E op \in UnimplementedMethods : UnimplementedCall(op)
    \/ \E fails \in BOOLEAN : BatchDeleteLoop(fails) /\ UNCHANGED clientVars
    \/ Return /\ UNCHANGED clientVars

SvcSpecInit ==
    SvcInit /\ PipeIdle /\ PropIdle /\ MaskIdle /\ StorableIdle /\ ClientIdle

SvcSpec == SvcSpecInit /\ [][SvcNext]_vars

\* applyMask applied to every bundle and mask drawn.
MaskSpecInit ==
    MaskInit /\ PipeIdle /\ PropIdle /\ SvcIdle /\ StorableIdle /\ ClientIdle

MaskSpec == MaskSpecInit /\ [][MaskApply]_vars

StorableSpecInit ==
    StorableInit /\ PipeIdle /\ PropIdle /\ SvcIdle /\ MaskIdle /\ ClientIdle

StorableSpec == StorableSpecInit /\ [][IsStorableCall]_vars

ClientSpecInit ==
    ClientInit /\ PipeIdle /\ PropIdle /\ MaskIdle /\ StorableIdle

ClientSpec == ClientSpecInit /\ [][ClientNext]_vars

\* The paging client on its own.  It is a sequential program: its next call,
\* and the return of the call it waits for, happen.
PagingNext == PagingCall \/ ClientReturn

\* The repositories it pages through hold the server's bundle, federated
\* bundles in the id form and a corrupt id.
PagingIds ==
    {"EXAMPLE.ORG", "spiffe://td1.org", "invalid TD", "spiffe://td2.org",
     "spiffe://td3.org"}

PagingSpecInit ==
    ClientSpecInit /\ client \in PagingClients /\ Range(ds) \subseteq PagingIds

FairPagingSpec == PagingSpecInit /\ [][PagingNext]_vars /\ WF_vars(PagingNext)

\* ================================================================== claims
CloseCalled == \E c \in Closers : cpc[c] # "idle"

\* The forwarding goroutine waits in the "<-outCh" of its default branch on an
\* empty outCh.  It is the only sender on outCh, so nothing ever wakes it.
WorkerStuck == wpc = "evict" /\ outCh = <<>>

\* Push(p) holds the shared lock and waits in its select: done is open and the
\* forwarding goroutine is not at its receive.
PushBlocked(p) == ppc[p] = "select" /\ doneCloses = 0 /\ wpc # "recv"

\* C1: with capacity 1, one producer that pushed U1, U2, U3 in that order (U3
\* its last Push) and a consumer that keeps reading, the consumer eventually
\* receives U3 (as long as nobody closes the pipe).
C1_LastUpdateDelivered ==
    (bufferSize = 1 /\ producers = {"p1"} /\ nextEv = 4 /\ pushes = MaxPushes /\ ~CloseCalled)
        ~> (3 \in Range(delivered) \/ CloseCalled)

\* C2: producer progress for every capacity and every consumer behaviour: the
\* forwarding goroutine never blocks for good while it handles an accepted
\* event, so no Push of a non-nil event on an open pipe waits on it for ever.
C2_ProducerProgress ==
    /\ ~WorkerStuck
    /\ \A p \in Pushers :
         ~(ppc[p] = "select" /\ pev[p] # Nil /\ inCloses = 0 /\ WorkerStuck)

\* C3: a Close called while a Push is blocked on the intake does not have to
\* wait for that Push: Close is never kept at the lock by a pusher that is
\* itself blocked waiting for the forwarding goroutine.
C3_CloseCancelsBlockedPush ==
    \A c \in Closers :
        cpc[c] = "lock" => \A p \in readers : ~PushBlocked(p)

\* C4: drain before closure.  When the consumer observes the output closed,
\* every accepted event that was not evicted has been delivered to it; and
\* when the output is closed, every accepted event has been forwarded (it is
\* buffered, delivered or evicted), the goroutine holding none back.
C4_DrainBeforeClosure ==
    /\ rpc = "end" =>
         \A e \in Range(accepted) : e \in evicted \/ e \in Range(delivered)
    /\ outClosed =>
         \A e \in Range(accepted) :
             e \in evicted \/ e \in Range(delivered) \/ e \in Range(outCh)

\* C4 witness: after an overflow and a Close, the goroutine has exited and the
\* output is closed with unread items still pending for the consumer.
C4_Witness ==
    /\ outClosed
    /\ wpc = "exited"
    /\ outCh # <<>>
    /\ evicted # {}
    /\ CloseCalled

\* C5: once a Close has returned, a Push never blocks (its select has the
\* closed done channel ready and never the intake; the lock is held at most by
\* a Close that is about to skip its branch), nothing panics, and the event of
\* a Push called after that return never reaches the goroutine, the buffer or
\* the consumer.
C5_PushAfterCloseIsNoop ==
    CloseReturned =>
        /\ ~panicked
        /\ \A p \in Pushers : ppc[p] = "select" => doneCloses > 0 /\ inNil
        /\ writer # None => cpc[writer] = "locked" /\ inNil
        /\ lateEv \cap (Range(accepted) \cup Range(outCh) \cup Range(delivered) \cup {held}) = {}

\* C5 witness: a Push of a non-nil event called after Close returned has
\* itself returned.
C5_Witness ==
    /\ CloseReturned
    /\ \E p \in Pushers : ppc[p] = "idle" /\ pev[p] \in lateEv

\* C6: a Close has returned only if the forwarding goroutine has exited and
\* the output is closed.
C6_CloseWaitsForWorker ==
    \A c \in Closers :
        cpc[c] = "returned" => wpc = "exited" /\ outClosed /\ wg = 0

\* C6 witness: Close returned on a pipe that had accepted an event.
C6_Witness == CloseReturned /\ accepted # <<>>

\* C7: Close is idempotent.  The intake and the done channel are closed at
\* most once and nothing panics, and a Close that finds the teardown already
\* done leaves the pipe state unchanged.
C7_CloseIdempotent ==
    [][ /\ inCloses' <= 1
        /\ doneCloses' <= 1
        /\ inCloses' = doneCloses'
        /\ ~panicked'
        /\ \A c \in Closers :
             (inNil /\ cpc[c] = "locked" /\ cpc'[c] # "locked")
                 => UNCHANGED pipeState ]_vars

\* C7 witness: two Close calls have returned, the intake closed once.
C7_Witness == (\A c \in Closers : cpc[c] = "returned") /\ inCloses = 1

\* C8: overflow policy.  The buffer never holds more than bufferSize events,
\* and a discard removes the oldest buffered event and happens only when the
\* buffer holds bufferSize events at that moment.
C8_OverflowPolicy ==
    [][ /\ Len(outCh') <= bufferSize
        /\ (wpc = "evict" /\ wpc' = "resend")
             => (Len(outCh) = bufferSize /\ outCh' = Tail(outCh)) ]_vars

\* C9 as stated: Push(nil) returns at once, without waiting for the forwarding
\* goroutine: whenever it is in its select it can return on its own; and a nil
\* event is never buffered or delivered.
C9_PushNilImmediate ==
    /\ \A p \in Pushers : (ppc[p] = "select" /\ pev[p] = Nil) => doneCloses > 0
    /\ Nil \notin Range(outCh) \cup Range(delivered)

\* C9 amended: Push(nil) is handed to the intake like any other event: it
\* returns only when the forwarding goroutine has received the nil or the pipe
\* has been closed; the goroutine discards it, so a nil event is never
\* buffered or delivered.
C9_NilDroppedByWorker ==
    [][ /\ \A p \in Pushers :
             (pev[p] = Nil /\ ppc[p] = "select" /\ ppc'[p] = "idle")
                 => (doneCloses > 0 \/ (wpc = "recv" /\ wpc' = "got" /\ held' = Nil))
        /\ Nil \notin Range(outCh') \cup Range(delivered') ]_vars

\* C9 witness: the forwarding goroutine has received a nil from a Push that
\* has returned.
C9_Witness ==
    /\ wpc = "got"
    /\ held = Nil
    /\ \E p \in Pushers : ppc[p] = "idle" /\ pev[p] = Nil /\ pushes > 0

\* C10: Value() right after Update(v) on the writer's path returns v; with one
\* writer and concurrent readers every value read is one that was published
\* whole; and the (certificate chain, private key) pair the accessor returns
\* comes from one published State.
C10_SnapshotWhole ==
    /\ (upc = "idle" /\ updates > 0) => ugot = ulast
    /\ state \in published
    /\ \A r \in Readers :
         /\ kpc[r] # "idle" => ks[r] \in published
         /\ kres[r] # NoResult =>
              [SVID |-> kres[r].svid, Key |-> kres[r].key] \in published

\* C10 witness: an accessor call that read the first update's State returned
\* it after the writer had published the second one and checked its Value().
C10_Witness ==
    /\ upc = "idle"
    /\ state = StateOf(2)
    /\ \E r \in Readers : kres[r] # NoResult /\ kres[r].svid = 1 /\ kres[r].key = 1

\* C11: each reader sees the publications in order: the State a reader's
\* Value() call returns is never an earlier publication than the State its
\* previous call returned.
C11_MonotonicReads ==
    [][\A r \in Readers :
         (kpc[r] = "idle" /\ kpc'[r] = "bundles" /\ kres[r] # NoResult)
            => ks'[r].SVID >= kres[r].svid]_vars

\* C11 witness: a reader whose previous call returned the first update's
\* State has now read the second update's State.
C11_Witness ==
    \E r \in Readers :
        /\ kres[r] # NoResult /\ kres[r].svid = 1
        /\ kpc[r] = "bundles" /\ ks[r].SVID = 2

\* C12: the accessor always returns: it reads the State and the bundle map
\* held at that moment, returns that State's chain and key with the root CAs
\* of the configured trust domain's bundle in that map, or no root CAs when
\* the map has no bundle for it, and none of its steps changes either property.
C12_AccessorTotal ==
    [][\A r \in Readers :
         /\ (kpc[r] = "idle" /\ kpc'[r] = "bundles") => ks'[r] = state
         /\ (kpc[r] = "bundles" /\ kpc'[r] = "return") => kb'[r] = bundles
         /\ (kpc[r] = "return" /\ kpc'[r] = "idle") =>
               /\ kres'[r].svid = ks[r].SVID
               /\ kres'[r].key = ks[r].Key
               /\ kres'[r].rootCAs =
                    (IF TrustDomain \in DOMAIN kb[r] THEN kb[r][TrustDomain] ELSE <<>>)
         /\ kpc'[r] # kpc[r] => (state' = state /\ bundles' = bundles)]_vars

\* C12 witness: with the first update published and a bundle map without
\* the configured trust domain, an accessor call returned that State and no
\* root CAs.
C12_Witness ==
    /\ TrustDomain \notin DOMAIN bundles
    /\ state = StateOf(1)
    /\ \E r \in Readers :
          kpc[r] = "idle" /\ kres[r] = [svid |-> 1, key |-> 1, rootCAs |-> <<>>]

\* ---------------------------------------------- bundle service: claims
BatchDeleteRequested == req.op = "BatchDeleteFederatedBundle"
ListReturned == req.op = "ListFederatedBundles" /\ svc.pc = "returned"
GetReturned == req.op = "GetFederatedBundle" /\ svc.pc = "returned"

\* The page the repository hands to the ListFederatedBundles call just made
\* (the repository is as the call found it).
RepositoryPage == ListBundles(ListRequest(req.PageSize, req.PageToken), FALSE)

IsServerBundle(b) ==
    LET td == TrustDomainFromString(b.TrustDomainId)
    IN  ~td.err /\ td.name = s_td.name

HasInvalidID(page) ==
    \E i \in 1..Len(page.Bundles) : TrustDomainFromString(page.Bundles[i].TrustDomainId).err

RECURSIVE OtherBundles(_)
\* The bundles of a sequence that are not the server's, in their order.
OtherBundles(bs) ==
    IF bs = <<>> THEN <<>>
    ELSE IF IsServerBundle(Head(bs)) THEN OtherBundles(Tail(bs))
    ELSE <<Head(bs)>> \o OtherBundles(Tail(bs))

ViewsOf(bs, mask) == [i \in 1..Len(bs) |-> applyMask(bs[i], mask).out]

\* C13: every item of a batch delete has a status: InvalidArgument for a
\* malformed trust domain and for the server's own, code OK when the
\* repository deleted the bundle, NotFound when the repository has no such
\* bundle, Internal when the repository failed otherwise.
C13_PerItemStatus ==
    BatchDeleteRequested =>
        \A i \in 1..Len(resp.Results) :
            LET td == TrustDomainFromString(req.TrustDomains[i])
                st == resp.Results[i].Status
            IN  /\ st # NilStatus
                /\ td.err => st.Code = "InvalidArgument"
                /\ (~td.err /\ td.name = s_td.name) => st.Code = "InvalidArgument"
                /\ svc.items[i] = "deleted" => st.Code = "OK"
                /\ svc.items[i] = "NotFound" => st.Code = "NotFound"
                /\ svc.items[i] = "error" => st.Code = "Internal"

\* C14: a batch delete of n > 0 items returns no error and n results; while
\* it runs and when it has returned, the i-th result carries the i-th input
\* string as given and reports that item: it comes without a repository call
\* exactly when that item is malformed or the server's own trust domain.
C14_OneResultPerItem ==
    (BatchDeleteRequested /\ Len(req.TrustDomains) > 0) =>
        /\ svc.pc = "deleting" =>
             resp.code = "pending" /\ Len(resp.Results) < Len(req.TrustDomains)
        /\ svc.pc = "returned" =>
             resp.code = "OK" /\ Len(resp.Results) = Len(req.TrustDomains)
        /\ Len(svc.items) = Len(resp.Results)
        /\ \A i \in 1..Len(resp.Results) :
             LET td == TrustDomainFromString(req.TrustDomains[i])
             IN  /\ resp.Results[i].TrustDomain = req.TrustDomains[i]
                 /\ (svc.items[i] = "no call") <=> (td.err \/ td.name = s_td.name)
                 /\ (svc.items[i] = "no call") =>
                       /\ resp.Results[i].Status # NilStatus
                       /\ resp.Results[i].Status.Code = "InvalidArgument"

\* C14 witness: a returned batch delete whose first item was malformed and
\* whose second item, given in the spiffe:// form, was deleted.
C14_Witness ==
    /\ BatchDeleteRequested
    /\ svc.pc = "returned"
    /\ req.TrustDomains = <<"malformed TD", "spiffe://td1.org">>
    /\ svc.items = <<"no call", "deleted">>
    /\ resp.Results[2].TrustDomain = "spiffe://td1.org"

C16_GetOwnDomainRejected ==
    (GetReturned /\ ~TrustDomainFromString(req.TrustDomain).err
                 /\ TrustDomainFromString(req.TrustDomain).name = s_td.name) =>
        /\ resp.code = "InvalidArgument"
        /\ resp.Bundle = NilView
        /\ svc.calls = <<>>

\* C16 witness: the own trust domain was asked for in its spiffe:// form, with
\* a mask, while the repository holds the own bundle under that id.
C16_Witness ==
    /\ GetReturned
    /\ req.TrustDomain = "spiffe://example.org"
    /\ req.OutputMask # NilMask
    /\ "spiffe://example.org" \in Range(ds)
    /\ resp.code = "InvalidArgument"

\* C17: a ListFederatedBundles call that returns a response returns the
\* masked views of exactly the bundles of the repository's page that are not
\* the server's, in the page's order, none of them the server's, and the
\* repository's next token as it is (none without pagination).
C17_ListExcludesOwn ==
    (ListReturned /\ resp.code = "OK") =>
        /\ resp.Bundles = ViewsOf(OtherBundles(RepositoryPage.Bundles), req.OutputMask)
        /\ \A i \in 1..Len(resp.Bundles) :
             /\ resp.Bundles[i].TrustDomain # s_td.name
             /\ \A j \in 1..Len(resp.Bundles[i].X509Authorities) :
                  resp.Bundles[i].X509Authorities[j].Asn1 \notin
                     {<<"cert", "spiffe://example.org">>, <<"cert", "EXAMPLE.ORG">>}
        /\ resp.NextPageToken =
             (IF RepositoryPage.Pagination = NoPagination
              THEN "" ELSE RepositoryPage.Pagination.Token)

\* C17 witness: a page of two bundles, the server's own first, was returned
\* as the one federated bundle with the repository's token.
C17_Witness ==
    /\ ListReturned
    /\ resp.code = "OK"
    /\ req.PageSize = 2
    /\ req.PageToken = "EXAMPLE.ORG"
    /\ ds = <<"EXAMPLE.ORG", "spiffe://example.org", "spiffe://td1.org", "spiffe://td2.org">>
    /\ Len(resp.Bundles) = 1
    /\ resp.NextPageToken = "spiffe://td1.org"

\* The repository of the pagination round trip: the own bundle first, then
\* b1, b2, b3.
RoundTripRepository ==
    ds = <<"spiffe://example.org", "spiffe://td1.org", "spiffe://td2.org", "spiffe://td3.org">>

\* C18 as stated: with pageSize 2 the first call returns [b1] and token t1,
\* and the second call, with token t1, returns [b2, b3] and an empty token.
C18_SecondPageEmptyToken ==
    (RoundTripRepository /\ ListReturned /\ resp.code = "OK" /\ req.PageSize = 2) =>
        /\ req.PageToken = "" =>
             /\ resp.Bundles = ViewsOf(<<BundleOf("spiffe://td1.org")>>, req.OutputMask)
             /\ resp.NextPageToken = "spiffe://td1.org"
        /\ req.PageToken = "spiffe://td1.org" =>
             /\ resp.Bundles = ViewsOf(<<BundleOf("spiffe://td2.org"),
                                         BundleOf("spiffe://td3.org")>>, req.OutputMask)
             /\ resp.NextPageToken = ""

\* C18: with pageSize 2 the first call returns [b1] and token t1; the second
\* call, with token t1, returns [b2, b3] and token t3, the id of b3; a third
\* call, with token t3, returns no bundle and the empty token.
C18_PaginationRoundTrip ==
    (RoundTripRepository /\ ListReturned /\ resp.code = "OK" /\ req.PageSize = 2) =>
        /\ req.PageToken = "" =>
             /\ resp.Bundles = ViewsOf(<<BundleOf("spiffe://td1.org")>>, req.OutputMask)
             /\ resp.NextPageToken = "spiffe://td1.org"
        /\ req.PageToken = "spiffe://td1.org" =>
             /\ resp.Bundles = ViewsOf(<<BundleOf("spiffe://td2.org"),
                                         BundleOf("spiffe://td3.org")>>, req.OutputMask)
             /\ resp.NextPageToken = "spiffe://td3.org"
        /\ req.PageToken = "spiffe://td3.org" =>
             /\ resp.Bundles = <<>>
             /\ resp.NextPageToken = ""

\* C18 witness: the second call of the round trip has returned b2 and b3.
C18_Witness ==
    /\ RoundTripRepository
    /\ ListReturned
    /\ resp.code = "OK"
    /\ req.PageSize = 2
    /\ req.PageToken = "spiffe://td1.org"
    /\ Len(resp.Bundles) = 2
    /\ resp.NextPageToken = "spiffe://td3.org"

\* C19: when a bundle of the repository's page has an id that does not
\* parse, the ListFederatedBundles call returns Internal, no bundle and no
\* token, wherever that bundle is in the page and whatever the mask.
C19_ListFailFast ==
    (ListReturned /\ HasInvalidID(RepositoryPage)) =>
        /\ resp.code = "Internal"
        /\ resp.Bundles = <<>>
        /\ resp.NextPageToken = ""

\* C19 witness: the corrupt record came last in a page, after a federated
\* bundle, and the mask did not ask for the trust domain.
C19_Witness ==
    /\ ListReturned
    /\ req.OutputMask # NilMask
    /\ ~req.OutputMask.TrustDomain
    /\ req.PageSize = 2
    /\ RepositoryPage.Bundles = <<BundleOf("spiffe://td1.org"), BundleOf("invalid TD")>>
    /\ resp.code = "Internal"

\* ------------------------------------------------------ applyMask: claims
\* The mask in force: the default mask for a nil mask.
MaskInForce == IF maskM = NilMask THEN defaultMask ELSE maskM

Asn1Of(authorities) == [i \in 1..Len(authorities) |-> authorities[i].Asn1]
DerBytesOf(rootCas) == [i \in 1..Len(rootCas) |-> rootCas[i].DerBytes]

\* The fields other than the trust domain: copied when the flag is true,
\* zero or empty when it is false; the sequence number always zero.
OtherFieldsMasked(out) ==
    /\ out.RefreshHint = (IF MaskInForce.RefreshHint THEN maskB.RefreshHint ELSE 0)
    /\ out.SequenceNumber = 0
    /\ Asn1Of(out.X509Authorities) =
          (IF MaskInForce.X509Authorities THEN DerBytesOf(maskB.RootCas) ELSE <<>>)
    /\ Len(out.JwtAuthorities) =
          (IF MaskInForce.JwtAuthorities THEN Len(maskB.JwtSigningKeys) ELSE 0)
    /\ \A i \in 1..Len(out.JwtAuthorities) :
          /\ out.JwtAuthorities[i].PublicKey = maskB.JwtSigningKeys[i].PkixBytes
          /\ out.JwtAuthorities[i].KeyId = maskB.JwtSigningKeys[i].Kid
          /\ out.JwtAuthorities[i].ExpiresAt = maskB.JwtSigningKeys[i].NotAfter

CanonicalTrustDomain(b) == String(TrustDomainFromString(b.TrustDomainId))

\* C21: for GetBundle, GetFederatedBundle and ListFederatedBundles, every
\* bundle returned carries the canonical trust domain of the stored bundle,
\* for every output mask, the masks whose trustDomain flag is false included.
C21_TrustDomainForEveryMask ==
    /\ (/\ req.op \in {"GetBundle", "GetFederatedBundle"}
        /\ svc.pc = "returned"
        /\ resp.code = "OK")
         => resp.Bundle.TrustDomain = CanonicalTrustDomain(BundleOf(svc.calls[1].id))
    /\ (ListReturned /\ resp.code = "OK") =>
         LET stored == OtherBundles(RepositoryPage.Bundles)
         IN  \A i \in 1..Len(resp.Bundles) :
                 resp.Bundles[i].TrustDomain = CanonicalTrustDomain(stored[i])

\* C22: the own-domain checks use the canonical identifier.  For every string
\* that parses to the server's own trust domain, GetFederatedBundle returns
\* InvalidArgument and the batch delete reports InvalidArgument for that item,
\* neither calling the repository for it; and a list that returns a response
\* leaves out every stored bundle whose id is such a string.
C22_OwnDomainCanonical ==
    /\ (GetReturned /\ req.TrustDomain \in OwnRepresentations) =>
         /\ resp.code = "InvalidArgument"
         /\ svc.calls = <<>>
    /\ BatchDeleteRequested =>
         /\ \A i \in 1..Len(resp.Results) :
              req.TrustDomains[i] \in OwnRepresentations =>
                 /\ resp.Results[i].Status # NilStatus
                 /\ resp.Results[i].Status.Code = "InvalidArgument"
                 /\ svc.items[i] = "no call"
         /\ \A k \in 1..Len(svc.calls) : svc.calls[k].id \notin OwnRepresentations
    /\ (ListReturned /\ resp.code = "OK") =>
         LET page == RepositoryPage.Bundles
             ids == [i \in 1..Len(page) |-> page[i].TrustDomainId]
         IN  /\ Len(resp.Bundles) = Len(Keep(ids, Range(ids) \ OwnRepresentations))
             /\ \A i \in 1..Len(resp.Bundles) :
                  \A j \in 1..Len(resp.Bundles[i].X509Authorities) :
                      \A s \in OwnRepresentations :
                          resp.Bundles[i].X509Authorities[j].Asn1 # <<"cert", s>>

\* C22 witness: a batch delete naming the server's own trust domain by its
\* bare name, in the id form and in capitals has returned, each item rejected.
C22_Witness ==
    /\ BatchDeleteRequested
    /\ svc.pc = "returned"
    /\ req.TrustDomains = <<"example.org", "spiffe://example.org", "EXAMPLE.ORG">>
    /\ \A i \in 1..3 : resp.Results[i].Status.Code = "InvalidArgument"
    /\ "EXAMPLE.ORG" \in Range(ds)
    /\ "spiffe://example.org" \in Range(ds)

\* C23: IsStorable(selectors) is true exactly when the type of at least one
\* selector equals the storage-capability marker, letter case set aside, and
\* false for no selectors.
C23_IsStorableCaseInsensitive ==
    storable # NotAsked =>
        storable = Answer(\E i \in 1..Len(selectors) :
                              ToLower(selectors[i].Type) = ToLower(svidstoreType))

\* The repository's entries for the server's own trust domain, in its order.
OwnEntries(repo) == Keep(repo, OwnRepresentations)

C25_GetDeleteSameKey ==
    (client.script = "getDelete" /\ client.first = "OK") =>
        /\ client.step \in {"get again", "done"} =>
             /\ client.status = NilStatus
             /\ client.fetched \notin Range(ds)
        /\ client.step = "done" => client.second = "NotFound"

\* The keys of the items of the running batch delete whose result reports no
\* error: the names the repository was asked to delete and did.
DeletedKeys ==
    {String(TrustDomainFromString(req.TrustDomains[i])) :
        i \in {k \in 1..Len(resp.Results) : resp.Results[k].Status = NilStatus}}

\* C26: the items of a batch delete are independent.  Whatever the items
\* before it did (malformed, own trust domain, absent, repository error,
\* deleted), an item that names a federated trust domain is attempted at the
\* repository, all items are handled by the time the call returns, and the
\* repository is what it was before the call without exactly the entries of
\* the items whose result reports no error, in the same order.
C26_ItemsIndependent ==
    BatchDeleteRequested =>
        /\ svc.pc = "returned" => Len(svc.items) = Len(req.TrustDomains)
        /\ \A i \in 1..Len(svc.items) :
             /\ req.TrustDomains[i] \in FederatedInputs => svc.items[i] # "no call"
             /\ resp.Results[i].Status = NilStatus <=> svc.items[i] = "deleted"
        /\ Len(svc.calls) =
             Cardinality({i \in 1..Len(svc.items) : svc.items[i] # "no call"})
        /\ ds = Keep(svc.dsBefore, Range(svc.dsBefore) \ DeletedKeys)

\* C26 witness: a batch delete has returned whose first item was the own
\* trust domain, whose second item met a repository error and whose third
\* item, the same trust domain again, was deleted.
C26_Witness ==
    /\ BatchDeleteRequested
    /\ svc.pc = "returned"
    /\ req.TrustDomains = <<"example.org", "spiffe://td1.org", "spiffe://td1.org">>
    /\ svc.items = <<"no call", "error", "deleted">>
    /\ svc.dsBefore = <<"spiffe://td1.org", "spiffe://td2.org", "td1.org">>
    /\ ds = <<"spiffe://td1.org", "spiffe://td2.org">>

Paging == client.script = "paging"

\* C27: paging to completion.  Against a repository that does not change, a
\* client that calls ListFederatedBundles with a page size > 0 and the empty
\* token, and then with the token of each response until a response carries
\* the empty token, comes to an end; when it does, it has received every
\* federated bundle of the repository exactly once, in the repository's
\* order, and never the server's own bundle, also when a page held fewer
\* bundles than the page size.  The iteration ends in an error only at a
\* stored bundle whose id does not parse.
C27_PagingToCompletion ==
    /\ []((Paging /\ client.done /\ ~client.failed) =>
             client.got = ViewsOf(OtherBundles(BundlesOf(ds)), client.mask))
    /\ []((Paging /\ client.failed) => "invalid TD" \in Range(ds))
    /\ Paging ~> (Paging /\ client.done)

\* C27 witness: an iteration with page size 2 has ended after three calls;
\* its first page, holding the server's bundle, gave one bundle and a token,
\* and the client has the three federated bundles.
C27_Witness ==
    /\ Paging
    /\ client.done
    /\ ~client.failed
    /\ client.short
    /\ client.pageSize = 2
    /\ client.pages = 3
    /\ ds = <<"EXAMPLE.ORG", "spiffe://td1.org", "spiffe://td2.org", "spiffe://td3.org">>
    /\ client.got = ViewsOf(BundlesOf(<<"spiffe://td1.org", "spiffe://td2.org",
                                        "spiffe://td3.org">>), client.mask)

\* The place of an event in a sequence of distinct events.
Pos(s, e) == CHOOSE i \in 1..Len(s) : s[i] = e

\* C28: delivery order.  With a single producer, what the consumer has
\* received is a subsequence of the non-nil events the pipe accepted, in the
\* same order: every event delivered was pushed and accepted, none is
\* delivered twice, and two events are delivered in the order in which they
\* were accepted, which is the order in which they were pushed.
C28_DeliveryOrder ==
    producers = {"p1"} =>
        /\ \A i \in 1..Len(accepted) :
             /\ accepted[i] \in 1..(nextEv - 1)
             /\ \A j \in 1..Len(accepted) : i < j => accepted[i] < accepted[j]
        /\ \A i \in 1..Len(delivered) :
             /\ delivered[i] \in Range(accepted)
             /\ \A j \in 1..Len(delivered) :
                  i < j => Pos(accepted, delivered[i]) < Pos(accepted, delivered[j])

\* C28 witness: a single producer pushed three events; the second one was
\* evicted and the consumer has received the first and the third.
C28_Witness ==
    /\ producers = {"p1"}
    /\ accepted = <<1, 2, 3>>
    /\ evicted = {2}
    /\ delivered = <<1, 3>>

\* C29: Close terminates.  Every call of Close returns in the end, whatever
\* the Push calls and the consumer do, a consumer that takes an item during
\* an overflow included: Close, Push and the forwarding goroutine are never
\* all blocked for good.
C29_CloseTerminates ==
    \A c \in Closers : (cpc[c] # "idle") ~> (cpc[c] = "returned")

=============================================================================
